---- MODULE Spec2Model ----
(***************************************************************************)
(* Output dispatch core of fluent-bit: flush coroutines, completion words  *)
(* on the instance event pipe, per-instance metrics                        *)
(* (include/fluent-bit/flb_output.h), and the msgpack helpers of           *)
(* src/flb_mp.c.                                                           *)
(***************************************************************************)
EXTENDS Integers, Sequences, FiniteSets, TLC

\* ------------------------------------------------------------------ bounds
\* the number of flush contexts spawned in one behaviour
MaxCoros == 2
\* the task and frame ids 0 .. SmallIds are among those a word is composed of
SmallIds == 3
\* the header cursors on one buffer, the runs of append calls and the
\* payload objects packed in one behaviour
MaxCursors == 2
MaxAppends == 2
MaxPacked == 1
MaxPatterns == 2
MaxCalls == 2
\* the calls of the size setters on one buffer
MaxSets == 2

\* ----------------------------------------------------------- configuration
\* two tasks, by task id, and two output instances, by instance id
Tasks == {0, 1}
Instances == {1, 2}
CoroHandles == 1 .. MaxCoros
NoCoro == 0

\* ------------------------------------------------------- program constants
FLB_OUTPUT_NO_MULTIPLEX == 512
FLB_ENGINE_TASK == 2
FLB_OK == 0
FLB_ERROR == 1
FLB_RETRY == 2

Dispositions == {FLB_OK, FLB_ERROR, FLB_RETRY}

\* the plugin flags the instances inherit: instance 1 is of a plugin that
\* declares FLB_OUTPUT_NO_MULTIPLEX, the others are of plugins that do not
InsFlags(o) == IF o = 1 THEN FLB_OUTPUT_NO_MULTIPLEX ELSE 0

\* task->records and task->size of task t (task 0: 3 records, 120 bytes)
TaskRecords(t) == 3 + t
TaskSize(t) == 120 + 10 * t

\* ------------------------------------------------- fixed-width arithmetic
\* An unsigned 32-bit value is the pair <<h, l>> of its 16-bit halves.
W16 == 2 ^ 16

RECURSIVE BitOr(_, _)
BitOr(a, b) ==
    IF a = 0 THEN b
    ELSE IF b = 0 THEN a
    ELSE (IF a % 2 = 1 \/ b % 2 = 1 THEN 1 ELSE 0) + 2 * BitOr(a \div 2, b \div 2)

RECURSIVE BitAnd(_, _)
BitAnd(a, b) ==
    IF a = 0 \/ b = 0 THEN 0
    ELSE (IF a % 2 = 1 /\ b % 2 = 1 THEN 1 ELSE 0) + 2 * BitAnd(a \div 2, b \div 2)

\* (uint32_t) n for an int 0 <= n < 2^31
U32(n) == <<n \div W16, n % W16>>
\* x << k and x >> k on 32 bits, 0 <= k < 32
Shl32(x, k) ==
    IF k >= 16
    THEN <<(x[2] * (2 ^ (k - 16))) % W16, 0>>
    ELSE <<(x[1] * (2 ^ k) + (x[2] * (2 ^ k)) \div W16) % W16, (x[2] * (2 ^ k)) % W16>>
Shr32(x, k) ==
    IF k >= 16
    THEN <<0, x[1] \div (2 ^ (k - 16))>>
    ELSE <<x[1] \div (2 ^ k), (x[2] \div (2 ^ k)) + (x[1] % (2 ^ k)) * (2 ^ (16 - k))>>
Or32(x, y) == <<BitOr(x[1], y[1]), BitOr(x[2], y[2])>>
And32(x, y) == <<BitAnd(x[1], y[1]), BitAnd(x[2], y[2])>>
\* the value of a 32-bit pattern whose top bit is clear
Nat32(x) == x[1] * W16 + x[2]

\* ------------------------------------------------------------ wire format
\* FLB_TASK_SET(ret, task_id, out_id): disposition in the 2 high bits,
\* task id in the next 15, frame id in the low 15
FLB_TASK_SET(ret, task_id, coro_id) ==
    Or32(Or32(Shl32(U32(ret), 30), Shl32(U32(task_id), 15)), U32(coro_id))

\* FLB_BITS_U64_SET(a, b): a in the high 32 bits, b in the low 32 bits; a
\* 64-bit word is the 4-tuple of its 16-bit parts, most significant first
FLB_BITS_U64_SET(a, b) == U32(a) \o b

FLB_BITS_U64_HIGH(val) == Nat32(SubSeq(val, 1, 2))
FLB_BITS_U64_LOW(val) == SubSeq(val, 3, 4)
\* the masks 0x3fff8000 and 0x00007fff
FLB_TASK_RET(set) == Nat32(Shr32(set, 30))
FLB_TASK_ID(set) == Nat32(Shr32(And32(set, <<16383, 32768>>), 15))
FLB_TASK_TH(set) == Nat32(And32(set, <<0, 32767>>))

\* flb_output_return: set = FLB_TASK_SET(ret, task->id, out_coro->id);
\*                    val = FLB_BITS_U64_SET(2, set)
CompletionWord_swapped(ret, task_id, coro_id) ==
    FLB_BITS_U64_SET(FLB_ENGINE_TASK, FLB_TASK_SET(ret, coro_id, task_id))

CompletionWord(ret, task_id, coro_id) ==
    FLB_BITS_U64_SET(FLB_ENGINE_TASK, FLB_TASK_SET(ret, task_id, coro_id))

\* ------------------------------------------------------------- flb_mp.c
\* the ids a completion word is composed of: the small ones, the powers of
\* two below 2^15 with their predecessors, and the largest id 2^15 - 1
IdSamples ==
    (0 .. SmallIds) \cup {2 ^ k : k \in 1 .. 14} \cup {2 ^ k - 1 : k \in 1 .. 15}

Cursors == 1 .. MaxCursors
FLB_MP_MAP == "map"
FLB_MP_ARRAY == "array"
NoHeader == [pc |-> "unused", type |-> FLB_MP_MAP, offset |-> 0,
             entries |-> <<0, 0>>, n |-> <<0, 0>>]

\* the lengths of the runs of append calls: 1, 2, 65535, 65536, 2^31 - 1, 2^31
AppendRuns == {<<0, 1>>, <<0, 2>>, <<0, W16 - 1>>, <<1, 0>>,
               <<(W16 \div 2) - 1, W16 - 1>>, <<W16 \div 2, 0>>}

\* x + k on 32 bits, and on the unbounded count of the history
Add32(x, k) == <<(x[1] + k[1] + (x[2] + k[2]) \div W16) % W16, (x[2] + k[2]) % W16>>
AddN(x, k) == <<x[1] + k[1] + (x[2] + k[2]) \div W16, (x[2] + k[2]) % W16>>

\* x - 1 on a nonzero 32-bit count
Sub1(x) == IF x[2] > 0 THEN <<x[1], x[2] - 1>> ELSE <<x[1] - 1, W16 - 1>>

\* (int) of a uint32_t: the pair <<h, l>> with a signed high half, and back
IntOfU32(x) == <<IF x[1] >= W16 \div 2 THEN x[1] - W16 ELSE x[1], x[2]>>
U32OfInt(d) == <<d[1] % W16, d[2]>>
U16OfInt(d) == d[2]
U8OfInt(d) == d[2] % 256

\* _msgpack_store16 / _msgpack_store32: big-endian bytes
Store16(v) == <<v \div 256, v % 256>>
Store32(x) == Store16(x[1]) \o Store16(x[2])
\* the bytes written at position pos (1-based) of buf
StoreBytes(buf, pos, bytes) ==
    [i \in 1 .. Len(buf) |->
        IF i >= pos /\ i < pos + Len(bytes) THEN bytes[i - pos + 1] ELSE buf[i]]

\* flb_mp_set_map_header_size on the header at offset off of buf
flb_mp_set_map_header_size_16bit(buf, off, size) ==
    LET h == buf[off + 1]
    IN  IF h \div 16 = 8
        THEN StoreBytes(buf, off + 1, <<BitOr(128, U8OfInt(size))>>)
        ELSE IF h = 222 \/ h = 223
        THEN StoreBytes(buf, off + 2, Store16(U16OfInt(size)))
        ELSE buf

flb_mp_set_map_header_size(buf, off, size) ==
    LET h == buf[off + 1]
    IN  IF h \div 16 = 8
        THEN StoreBytes(buf, off + 1, <<BitOr(128, U8OfInt(size))>>)
        ELSE IF h = 222
        THEN StoreBytes(buf, off + 2, Store16(U16OfInt(size)))
        ELSE IF h = 223
        THEN StoreBytes(buf, off + 2, Store32(U32OfInt(size)))
        ELSE buf

\* flb_mp_set_array_header_size
flb_mp_set_array_header_size_shifted(buf, off, size) ==
    LET h == buf[off + 1]
    IN  IF h = 221
        THEN StoreBytes(buf, off + 1, Store32(U32OfInt(size)))
        ELSE buf

flb_mp_set_array_header_size(buf, off, size) ==
    LET h == buf[off + 1]
    IN  IF h \div 16 = 9
        THEN StoreBytes(buf, off + 1, <<BitOr(144, U8OfInt(size))>>)
        ELSE IF h = 220
        THEN StoreBytes(buf, off + 2, Store16(U16OfInt(size)))
        ELSE IF h = 221
        THEN StoreBytes(buf, off + 2, Store32(U32OfInt(size)))
        ELSE buf

\* msgpack_pack_map(pck, 65536) / msgpack_pack_array(pck, 65536): the 32-bit
\* header form, 0xdf / 0xdd and the count in 4 bytes
msgpack_pack_map(buf, count) == buf \o <<223>> \o Store32(count)
msgpack_pack_array(buf, count) == buf \o <<221>> \o Store32(count)

\* mp_header_type_init: entries reset, offset at the next byte available
mp_header_type_init_at_start(buf) == [offset |-> 0, entries |-> <<0, 0>>]

mp_header_type_init(buf) == [offset |-> Len(buf), entries |-> <<0, 0>>]

\* flb_mp_map_header_init / flb_mp_array_header_init
flb_mp_map_header_init(buf) ==
    [sbuf |-> msgpack_pack_map(buf, <<1, 0>>),
     offset |-> mp_header_type_init(buf).offset,
     entries |-> mp_header_type_init(buf).entries]

flb_mp_array_header_init(buf) ==
    [sbuf |-> msgpack_pack_array(buf, <<1, 0>>),
     offset |-> mp_header_type_init(buf).offset,
     entries |-> mp_header_type_init(buf).entries]

\* k calls of flb_mp_map_header_append (flb_mp_array_header_append is the
\* same code): entries++ each
flb_mp_map_header_append_none(entries, k) == entries

flb_mp_map_header_append(entries, k) == Add32(entries, k)

\* flb_mp_map_header_end / flb_mp_array_header_end
flb_mp_map_header_end(buf, h) ==
    flb_mp_set_map_header_size(buf, h.offset, IntOfU32(h.entries))

flb_mp_array_header_end(buf, h) ==
    flb_mp_set_array_header_size(buf, h.offset, IntOfU32(h.entries))

\* a msgpack decoder reading the container header at offset off
ReadHeader(buf, off) ==
    LET h == buf[off + 1]
        b(i) == buf[off + 1 + i]
    IN  IF h \div 16 = 8
        THEN [family |-> FLB_MP_MAP, width |-> 1, count |-> <<0, h % 16>>]
        ELSE IF h \div 16 = 9
        THEN [family |-> FLB_MP_ARRAY, width |-> 1, count |-> <<0, h % 16>>]
        ELSE IF h = 222 \/ h = 220
        THEN [family |-> IF h = 222 THEN FLB_MP_MAP ELSE FLB_MP_ARRAY,
              width |-> 3, count |-> <<0, b(1) * 256 + b(2)>>]
        ELSE IF h = 223 \/ h = 221
        THEN [family |-> IF h = 223 THEN FLB_MP_MAP ELSE FLB_MP_ARRAY,
              width |-> 5, count |-> <<b(1) * 256 + b(2), b(3) * 256 + b(4)>>]
        ELSE [family |-> "other", width |-> 1, count |-> <<0, 0>>]

\* ------------------------------------------------- msgpack objects and bytes
FLB_TRUE == 1
FLB_FALSE == 0

\* a msgpack_object: a positive fixint, a fixstr (its bytes), a map (its
\* key/value pairs in order) or an array (its elements in order)
IntObj(n) == [t |-> "int", v |-> <<n>>]
StrObj(bytes) == [t |-> "str", v |-> bytes]
MapObj(kvs) == [t |-> "map", v |-> kvs]
ArrObj(els) == [t |-> "array", v |-> els]

\* the address of an object of the decoded record is its path from the root
\* map: <<i, 0>> further for the key of pair i, <<i, 1>> for its value or
\* for element i of an array
NullAddr == <<-1>>
KeyAddr(a, i) == a \o <<i, 0>>
ValAddr(a, i) == a \o <<i, 1>>

\* msgpack_pack_object: the object in its shortest encoding
RECURSIVE msgpack_pack_object(_, _)
RECURSIVE PackItems(_, _, _)
msgpack_pack_object(buf, obj) ==
    IF obj.t = "int" THEN Append(buf, obj.v[1])
    ELSE IF obj.t = "str" THEN buf \o <<160 + Len(obj.v)>> \o obj.v
    ELSE IF obj.t = "map" THEN PackItems(Append(buf, 128 + Len(obj.v)), obj, 1)
    ELSE PackItems(Append(buf, 144 + Len(obj.v)), obj, 1)

PackItems(buf, obj, i) ==
    IF i > Len(obj.v) THEN buf
    ELSE IF obj.t = "map"
    THEN PackItems(msgpack_pack_object(msgpack_pack_object(buf, obj.v[i][1]),
                                       obj.v[i][2]), obj, i + 1)
    ELSE PackItems(msgpack_pack_object(buf, obj.v[i]), obj, i + 1)

\* a msgpack decoder: the object at position pos of buf and the position
\* after it; ok is FALSE when the bytes are no object
BadParse == [ok |-> FALSE, obj |-> IntObj(0), next |-> 0]

RECURSIVE ParseObj(_, _)
RECURSIVE ParsePairs(_, _, _, _)
RECURSIVE ParseElems(_, _, _, _)
ParseObj(buf, pos) ==
    IF pos > Len(buf) THEN BadParse
    ELSE LET b == buf[pos]
         IN  IF b < 128 THEN [ok |-> TRUE, obj |-> IntObj(b), next |-> pos + 1]
             ELSE IF b >= 160 /\ b < 192
             THEN IF pos + (b - 160) > Len(buf) THEN BadParse
                  ELSE [ok |-> TRUE, obj |-> StrObj(SubSeq(buf, pos + 1, pos + (b - 160))),
                        next |-> pos + 1 + (b - 160)]
             ELSE IF b < 144 THEN ParsePairs(buf, pos + 1, <<0, b - 128>>, <<>>)
             ELSE IF b < 160 THEN ParseElems(buf, pos + 1, <<0, b - 144>>, <<>>)
             ELSE IF (b = 223 \/ b = 221) /\ pos + 4 <= Len(buf)
             THEN IF b = 223
                  THEN ParsePairs(buf, pos + 5, ReadHeader(buf, pos - 1).count, <<>>)
                  ELSE ParseElems(buf, pos + 5, ReadHeader(buf, pos - 1).count, <<>>)
             ELSE BadParse

ParsePairs(buf, pos, count, acc) ==
    IF count = <<0, 0>> THEN [ok |-> TRUE, obj |-> MapObj(acc), next |-> pos]
    ELSE LET k == ParseObj(buf, pos)
             v == ParseObj(buf, k.next)
         IN  IF ~k.ok THEN BadParse
             ELSE IF ~v.ok THEN BadParse
             ELSE ParsePairs(buf, v.next, Sub1(count), Append(acc, <<k.obj, v.obj>>))

ParseElems(buf, pos, count, acc) ==
    IF count = <<0, 0>> THEN [ok |-> TRUE, obj |-> ArrObj(acc), next |-> pos]
    ELSE LET e == ParseObj(buf, pos)
         IN  IF ~e.ok THEN BadParse
             ELSE ParseElems(buf, e.next, Sub1(count), Append(acc, e.obj))

\* the records and the patterns the accessor is run on; a key name is the
\* bytes of its string: a b c d e f x
Key(bytes) == StrObj(bytes)
key_a == <<97>>
key_b == <<98>>
key_c == <<99>>
key_d == <<100>>
key_e == <<101>>
key_f == <<102>>
key_x == <<120>>

RecordSamples ==
    << \* {a:{b:{c:1,d:2},e:3},f:4}
       MapObj(<< <<Key(key_a), MapObj(<< <<Key(key_b), MapObj(<< <<Key(key_c), IntObj(1)>>,
                                                            <<Key(key_d), IntObj(2)>> >>)>>,
                                      <<Key(key_e), IntObj(3)>> >>)>>,
                 <<Key(key_f), IntObj(4)>> >>),
       \* {a:{b:1,c:2,d:3},f:4}
       MapObj(<< <<Key(key_a), MapObj(<< <<Key(key_b), IntObj(1)>>,
                                      <<Key(key_c), IntObj(2)>>,
                                      <<Key(key_d), IntObj(3)>> >>)>>,
                 <<Key(key_f), IntObj(4)>> >>),
       \* {}
       MapObj(<<>>),
       \* {f:[1,{b:2}],a:5}
       MapObj(<< <<Key(key_f), ArrObj(<<IntObj(1), MapObj(<< <<Key(key_b), IntObj(2)>> >>)>>)>>,
                 <<Key(key_a), IntObj(5)>> >>) >>

\* a segment of a pattern is a key name or an array index [n], the index
\* written as the pair <<-1, n>>
Idx(n) == <<-1, n>>
IsIdx(seg) == seg[1] = -1

\* a, f, x, a.b, a.c, a.e, a.b.c, f[0], f[1].b
PatternSamples ==
    {<< key_a >>, << key_f >>, << key_x >>, << key_a, key_b >>,
     << key_a, key_c >>, << key_a, key_e >>, << key_a, key_b, key_c >>,
     << key_f, Idx(0) >>, << key_f, Idx(1), key_b >>}

\* objects that are no map: [1], 5, 0, "a"
NonMapSamples ==
    <<ArrObj(<<IntObj(1)>>), IntObj(5), IntObj(0), StrObj(key_a)>>

PatternLists ==
    UNION {[1 .. n -> PatternSamples] : n \in 0 .. MaxPatterns}

\* ------------------------------------------------------- the record accessor
\* flb_ra_get_kv_pair: the pattern pat (segments, outermost first) applied
\* to the object obj at address a; start is the address of the top-level
\* key. A key name selects the first pair of a map with that key, an index
\* the element of an array; for a matched element the key reported is the
\* element itself
RaNoMatch == [ret |-> -1, start_key |-> NullAddr, key |-> NullAddr, val |-> NullAddr]

RECURSIVE ra_descend(_, _, _, _)
ra_descend(pat, obj, a, start) ==
    IF IsIdx(pat[1])
    THEN LET i == pat[1][2] + 1
         IN  IF obj.t # "array" \/ Len(obj.v) < i THEN RaNoMatch
             ELSE IF Len(pat) = 1
             THEN [ret |-> 0, start_key |-> start, key |-> ValAddr(a, i),
                   val |-> ValAddr(a, i)]
             ELSE ra_descend(Tail(pat), obj.v[i], ValAddr(a, i), start)
    ELSE LET idx == IF obj.t # "map" THEN {}
                    ELSE {i \in 1 .. Len(obj.v) : obj.v[i][1] = StrObj(pat[1])}
         IN  IF idx = {} THEN RaNoMatch
             ELSE LET i == CHOOSE j \in idx : \A m \in idx : j <= m
                      s == IF start = NullAddr THEN KeyAddr(a, i) ELSE start
                  IN  IF Len(pat) = 1
                      THEN [ret |-> 0, start_key |-> s, key |-> KeyAddr(a, i),
                            val |-> ValAddr(a, i)]
                      ELSE ra_descend(Tail(pat), obj.v[i][2], ValAddr(a, i), s)

flb_ra_get_kv_pair(pat, map) == ra_descend(pat, map, <<>>, NullAddr)

NoMatch == [matched |-> FLB_FALSE, start_key |-> NullAddr, key |-> NullAddr,
            val |-> NullAddr]

\* flb_mp_accessor_create: the patterns in list order, the matches table
\* zeroed (calloc)
flb_mp_accessor_create(patterns) ==
    [ra_list |-> patterns, matches |-> [i \in 1 .. Len(patterns) |-> NoMatch]]

\* accessor_key_find_match: the first matched rule whose start_key is key
\* (rule ids from 1 here), or -1
accessor_key_find_match_none(m, key) == -1

accessor_key_find_match(m, key) ==
    LET idx == {i \in 1 .. Len(m.ra_list) :
                   m.matches[i].matched # FLB_FALSE /\ m.matches[i].start_key = key}
    IN  IF idx = {} THEN -1 ELSE CHOOSE i \in idx : \A j \in idx : i <= j

\* accessor_sub_pack: key (at address ka, NullAddr for none) and val (at
\* address va) packed step by step, the matched key left out
RECURSIVE accessor_sub_pack(_, _, _, _, _, _)
RECURSIVE SubPackItems(_, _, _, _, _, _)
accessor_sub_pack(match, buf, ka, ko, va, vo) ==
    IF match.key = ka \/ match.key = va
    THEN [ret |-> FLB_FALSE, buf |-> buf]
    ELSE LET b1 == IF ka # NullAddr THEN msgpack_pack_object(buf, ko) ELSE buf
         IN  IF vo.t = "map"
             THEN LET h == flb_mp_map_header_init(b1)
                      r == SubPackItems(match, h.sbuf, va, vo, 1, h.entries)
                  IN  [ret |-> FLB_TRUE,
                       buf |-> flb_mp_map_header_end(
                                   r.buf, [offset |-> h.offset, entries |-> r.entries])]
             ELSE IF vo.t = "array"
             THEN LET h == flb_mp_array_header_init(b1)
                      r == SubPackItems(match, h.sbuf, va, vo, 1, h.entries)
                  IN  [ret |-> FLB_TRUE,
                       buf |-> flb_mp_array_header_end(
                                   r.buf, [offset |-> h.offset, entries |-> r.entries])]
             ELSE [ret |-> FLB_TRUE, buf |-> msgpack_pack_object(b1, vo)]

\* the loops of accessor_sub_pack over the pairs of a map / the elements of
\* an array, from item i on
SubPackItems(match, buf, va, vo, i, entries) ==
    IF i > Len(vo.v) THEN [buf |-> buf, entries |-> entries]
    ELSE LET r == IF vo.t = "map"
                  THEN accessor_sub_pack(match, buf, KeyAddr(va, i), vo.v[i][1],
                                         ValAddr(va, i), vo.v[i][2])
                  ELSE accessor_sub_pack(match, buf, NullAddr, IntObj(0),
                                         ValAddr(va, i), vo.v[i])
         IN  SubPackItems(match, r.buf, va, vo, i + 1,
                          IF r.ret = FLB_TRUE
                          THEN flb_mp_map_header_append(entries, <<0, 1>>)
                          ELSE entries)

\* flb_mp_accessor_keys_remove, the rules applied to the map: the matches
\* table after rule i and on, and the number of matches
RECURSIVE ApplyRules(_, _, _, _)
ApplyRules(m, map, i, count) ==
    IF i > Len(m.ra_list) THEN [mpa |-> m, matches |-> count]
    ELSE LET g == flb_ra_get_kv_pair(m.ra_list[i], map)
         IN  IF g.ret = 0
             THEN ApplyRules([m EXCEPT !.matches[i] =
                                 [matched |-> FLB_TRUE, start_key |-> g.start_key,
                                  key |-> g.key, val |-> g.val]],
                             map, i + 1, count + 1)
             ELSE ApplyRules(m, map, i + 1, count)

\* flb_mp_accessor_keys_remove, the loop over the top-level pairs from i on
RECURSIVE RemoveLoop(_, _, _, _, _)
RemoveLoop(m, buf, map, i, entries) ==
    IF i > Len(map.v) THEN [buf |-> buf, entries |-> entries]
    ELSE LET id == accessor_key_find_match(m, KeyAddr(<<>>, i))
         IN  IF id = -1
             THEN RemoveLoop(m,
                             msgpack_pack_object(msgpack_pack_object(buf, map.v[i][1]),
                                                 map.v[i][2]),
                             map, i + 1, flb_mp_map_header_append(entries, <<0, 1>>))
             ELSE LET r == accessor_sub_pack(m.matches[id], buf, KeyAddr(<<>>, i),
                                             map.v[i][1], ValAddr(<<>>, i), map.v[i][2])
                  IN  RemoveLoop(m, r.buf, map, i + 1,
                                 IF r.ret = FLB_TRUE
                                 THEN flb_mp_map_header_append(entries, <<0, 1>>)
                                 ELSE entries)

\* map->via.map.size, read whatever the type of the object: the number of
\* elements of an array, the length of a str, the low bits of an integer
ViaMapSize(obj) == IF obj.t = "int" THEN obj.v[1] ELSE Len(obj.v)

\* flb_mp_accessor_keys_remove: the value returned, the accessor afterwards
\* and *out_buf (out when it is not written)
flb_mp_accessor_keys_remove_always_packs(m, map, out) ==
    LET a == ApplyRules(m, map, 1, 0)
        h == flb_mp_map_header_init(<<>>)
        r == RemoveLoop(a.mpa, h.sbuf, map, 1, h.entries)
    IN  [ret |-> FLB_TRUE, mpa |-> a.mpa,
         out |-> flb_mp_map_header_end(
                     r.buf, [offset |-> h.offset, entries |-> r.entries])]

flb_mp_accessor_keys_remove(m, map, out) ==
    IF ViaMapSize(map) = 0
    THEN [ret |-> FLB_FALSE, mpa |-> m, out |-> out]
    ELSE LET a == ApplyRules(m, map, 1, 0)
         IN  IF a.matches = 0
             THEN [ret |-> FLB_FALSE, mpa |-> a.mpa, out |-> out]
             ELSE LET h == flb_mp_map_header_init(<<>>)
                      r == RemoveLoop(a.mpa, h.sbuf, map, 1, h.entries)
                  IN  [ret |-> FLB_TRUE, mpa |-> a.mpa,
                       out |-> flb_mp_map_header_end(
                                   r.buf, [offset |-> h.offset, entries |-> r.entries])]

\* ------------------------------------------------------------------- state
VARIABLES
    users,          \* flb_task.users, per task
    coros,          \* flb_task.coros: the contexts linked on the task (_head)
    coro_id_next,   \* per task: the next incremental context id
    th_queue,       \* flb_output_instance.th_queue (_head_output)
    out_coro,       \* struct flb_output_coro per frame handle, with the frame's position
                    \* (pc) and, as history, what its flush returned (ret, n_ok)
    ch_events,      \* per instance: the words in the event pipe, oldest first
    flags,          \* flb_output_instance.flags
    has_metrics,    \* flb_output_instance.metrics != NULL
    metrics,        \* per instance: out_ok_records, out_ok_bytes, out_errors
    ins_alive,      \* the instance has not been destroyed
    flb_coro_key,   \* thread-local: the coroutine resumed last
    spawned,        \* history: contexts spawned per task
    handled,        \* history: completion words handled with destroy_id per task
    cancelled,      \* history: contexts torn down by instance destruction per task
    wlog            \* history: the words written to a pipe by the live contexts

\* the parameters of cb_flush on their way into the frames
VARIABLES
    flb_libco_params,   \* the thread-local struct flb_libco_out_params
    co_stack,           \* per frame: the locals of output_pre_cb_flush
    cb_flush_calls      \* history, per frame: the arguments of its cb_flush calls

pvars == <<flb_libco_params, co_stack, cb_flush_calls>>

\* the worker threads of the instances that own a pool
VARIABLES
    tp_workers,     \* flb_output_instance.tp_workers
    wk_pc,          \* per frame: where the worker thread running it is: "none",
                    \* "flush" (in cb_flush), "wrote" (in flb_output_return, after
                    \* flb_pipe_w), "counted" (before flb_coro_yield), "done"
    wk_ret          \* per frame: the value its flush returns with on the worker

tvars == <<tp_workers, wk_pc, wk_ret>>

\* what the event loop got back from flb_output_coro_destroy_id
VARIABLES
    destroy_ret     \* the value the last call returned; NotCalled before it

evars == <<destroy_ret>>

dvars == <<users, coros, coro_id_next, th_queue, out_coro, ch_events, flags,
           has_metrics, metrics, ins_alive, flb_coro_key, spawned, handled,
           cancelled, wlog, pvars, tvars, evars>>

\* one completion word composed and decoded on its own
VARIABLES
    w_pc,           \* "idle", "composed", "decoded"
    w_in,           \* the disposition, task id and frame id given
    w_val,          \* the 64-bit word flb_output_return composed
    w_dec           \* what the engine decoded from it

wvars == <<w_pc, w_in, w_val, w_dec>>

\* the msgpack buffer and the header cursors of flb_mp.c
VARIABLES
    sbuf,           \* msgpack_sbuffer: the bytes written so far
    mh,             \* per cursor: struct flb_mp_map_header, with the cursor's
                    \* position (pc), family (type) and, as history, the number
                    \* of append calls made on it (n)
    h_steps,        \* history: the runs of append calls made so far
    h_packed        \* history: the payload objects packed so far

hvars == <<sbuf, mh, h_steps, h_packed>>

\* the accessor and the records its keys are removed from
VARIABLES
    r_pc,           \* "new" before flb_mp_accessor_create, then "ready"
    mpa,            \* struct flb_mp_accessor: ra_list and the matches table
    r_map,          \* the record of the last flb_mp_accessor_keys_remove call
    r_ret,          \* what that call returned
    r_out,          \* *out_buf (with *out_size its length)
    r_calls         \* history: the calls made on the accessor

rvars == <<r_pc, mpa, r_map, r_ret, r_out, r_calls>>

\* a buffer that starts with a container header, and the size setters
VARIABLES
    s_in,           \* the buffer as it was handed to the first call
    s_buf,          \* the buffer (char *buf points at its first byte)
    s_calls         \* history: the calls made on the buffer

svars == <<s_in, s_buf, s_calls>>

vars == <<dvars, wvars, hvars, rvars, svars>>

\* the linked structures the list and counter operations work on
Heap == [users |-> users, coros |-> coros, th_queue |-> th_queue,
         out_coro |-> out_coro, params |-> flb_libco_params, stack |-> co_stack,
         calls |-> cb_flush_calls]

\* what the dispatcher passes to flb_output_thread for task t and instance o:
\* the task's chunk, its size, its tag and the input it came from, the
\* instance's plugin and plugin context
TaskBuf(t) == 100 + t
TaskTag(t) == 200 + t
TaskTagLen(t) == 5 + t
TaskInput(t) == 300 + t
InsPlugin(o) == 400 + o
InsContext(o) == 500 + o
FlushArgs(t, o) ==
    [data |-> TaskBuf(t), bytes |-> TaskSize(t), tag |-> TaskTag(t),
     tag_len |-> TaskTagLen(t), i_ins |-> TaskInput(t), out_plugin |-> InsPlugin(o),
     out_context |-> InsContext(o), config |-> "config"]

\* no parameters: the slot before the first output_params_set, the locals of
\* a frame that has not run
NoParams ==
    [data |-> 0, bytes |-> 0, tag |-> 0, tag_len |-> 0, i_ins |-> 0, out_plugin |-> 0,
     out_context |-> 0, config |-> "config", th |-> NoCoro]

\* output_pre_cb_flush up to co_switch(th->caller): the frame h, entered for
\* the first time, copies the slot into its locals and switches back
output_pre_cb_flush_entry_runs_flush(S, h) ==
    [S EXCEPT !.stack[h] = S.params,
              !.calls[h] = Append(@, [a \in DOMAIN FlushArgs(0, 1) |-> S.params[a]])]

output_pre_cb_flush_entry(S, h) == [S EXCEPT !.stack[h] = S.params]

\* output_pre_cb_flush after co_switch(th->caller): resumed, the frame h
\* calls out_p->cb_flush with its locals
output_pre_cb_flush_resume_reads_slot(S, h) ==
    [S EXCEPT !.calls[h] = Append(@, [a \in DOMAIN FlushArgs(0, 1) |-> S.params[a]])]

output_pre_cb_flush_resume(S, h) ==
    [S EXCEPT !.calls[h] = Append(@, [a \in DOMAIN FlushArgs(0, 1) |-> S.stack[h][a]])]

\* output_params_set: the slot filled in, then co_switch(th->callee)
output_params_set(S, th, a) ==
    output_pre_cb_flush_entry(
        [S EXCEPT !.params = [data |-> a.data, bytes |-> a.bytes, tag |-> a.tag,
                              tag_len |-> a.tag_len, i_ins |-> a.i_ins,
                              out_plugin |-> a.out_plugin,
                              out_context |-> a.out_context, config |-> a.config,
                              th |-> th]],
        th)

\* flb_output_coro_destroy_id returns 0 or -1; no call has been made yet
NotCalled == 1

FreeCoro == [pc |-> "free", id |-> 0, task |-> 0, o_ins |-> 0, ret |-> -1, n_ok |-> TRUE]
\* the memory of a destroyed frame holds nothing of the context any more;
\* its task and instance stay on record as history
DeadCoro(t, o) ==
    [pc |-> "destroyed", id |-> 0, task |-> t, o_ins |-> o, ret |-> -1, n_ok |-> TRUE]

\* ------------------------------------------------------------- list helpers
mk_list_add(list, h) == Append(list, h)
mk_list_del(list, h) == SelectSeq(list, LAMBDA x : x # h)
InList(list, h) == \E i \in 1 .. Len(list) : list[i] = h

\* -------------------------------------------------------- flb_output.h code
\* flb_output_coro_get: the first context on task->coros with this id
flb_output_coro_get_first(S, id, t) ==
    IF S.coros[t] = <<>> THEN NoCoro ELSE S.coros[t][1]

flb_output_coro_get(S, id, t) ==
    LET idx == {i \in 1 .. Len(S.coros[t]) : S.out_coro[S.coros[t][i]].id = id}
    IN  IF idx = {} THEN NoCoro
        ELSE S.coros[t][CHOOSE i \in idx : \A j \in idx : i <= j]

\* cb_output_coro_destroy: users--, unlink from th_queue and from task->coros
cb_output_coro_destroy_keeps_user(S, h) ==
    LET t == S.out_coro[h].task
        o == S.out_coro[h].o_ins
    IN  [S EXCEPT !.th_queue[o] = mk_list_del(@, h),
                  !.coros[t] = mk_list_del(@, h)]

cb_output_coro_destroy(S, h) ==
    LET t == S.out_coro[h].task
        o == S.out_coro[h].o_ins
    IN  [S EXCEPT !.users[t] = @ - 1,
                  !.th_queue[o] = mk_list_del(@, h),
                  !.coros[t] = mk_list_del(@, h)]

\* flb_coro_destroy: the destroy callback runs, then the frame is freed
flb_coro_destroy(S, h) ==
    LET S1 == cb_output_coro_destroy(S, h)
    IN  [S1 EXCEPT !.out_coro[h] = DeadCoro(S.out_coro[h].task, S.out_coro[h].o_ins)]

\* flb_output_coro_destroy_id
flb_output_coro_destroy_id_counts_miss(S, id, t) ==
    LET h == flb_output_coro_get(S, id, t)
    IN  IF h = NoCoro
        THEN [ret |-> -1, heap |-> [S EXCEPT !.users[t] = @ - 1]]
        ELSE LET o == S.out_coro[h].o_ins
                 S1 == [S EXCEPT !.th_queue[o] = mk_list_del(@, h)]
                 S2 == [S1 EXCEPT !.coros[t] = mk_list_del(@, h)]
                 S3 == flb_coro_destroy(S2, h)
                 S4 == [S3 EXCEPT !.users[t] = @ - 1]
             IN  [ret |-> 0, heap |-> S4]

flb_output_coro_destroy_id(S, id, t) ==
    LET h == flb_output_coro_get(S, id, t)
    IN  IF h = NoCoro
        THEN [ret |-> -1, heap |-> S]
        ELSE LET o == S.out_coro[h].o_ins
                 S1 == [S EXCEPT !.th_queue[o] = mk_list_del(@, h)]
                 S2 == [S1 EXCEPT !.coros[t] = mk_list_del(@, h)]
                 S3 == flb_coro_destroy(S2, h)
                 S4 == [S3 EXCEPT !.users[t] = @ - 1]
             IN  [ret |-> 0, heap |-> S4]

\* flb_output_thread: a new frame, its context filled in and linked on the
\* instance's th_queue; the frame reads its parameters and parks
flb_output_thread_first_queue(S, h, t, o, a) ==
    output_params_set(
        [S EXCEPT !.out_coro[h] = [pc |-> "created", id |-> 0, task |-> t,
                                   o_ins |-> o, ret |-> -1, n_ok |-> TRUE],
                  !.th_queue[1] = mk_list_add(@, h)],
        h, a)

flb_output_thread(S, h, t, o, a) ==
    output_params_set(
        [S EXCEPT !.out_coro[h] = [pc |-> "created", id |-> 0, task |-> t,
                                   o_ins |-> o, ret |-> -1, n_ok |-> TRUE],
                  !.th_queue[o] = mk_list_add(@, h)],
        h, a)

\* flb_task_add_coro: the incremental id, the link on task->coros, users++
flb_task_add_coro(S, h, id) ==
    LET t == S.out_coro[h].task
    IN  [S EXCEPT !.out_coro[h].id = id,
                  !.coros[t] = mk_list_add(@, h),
                  !.users[t] = @ + 1]

\* flb_output_return, the pipe write: flb_pipe_w on o_ins->ch_events[1]
\* (n_ok is FALSE when the write returns -1)
flb_output_return_pipe_twice(ch, S, co, ret, n_ok) ==
    LET c == S.out_coro[co]
        val == CompletionWord(ret, c.task, c.id)
    IN  IF n_ok THEN [ch EXCEPT ![c.o_ins] = Append(Append(@, val), val)] ELSE ch

flb_output_return_pipe_front(ch, S, co, ret, n_ok) ==
    LET c == S.out_coro[co]
        val == CompletionWord(ret, c.task, c.id)
    IN  IF n_ok THEN [ch EXCEPT ![c.o_ins] = <<val>> \o @] ELSE ch

flb_output_return_pipe_ignores_failure(ch, S, co, ret, n_ok) ==
    LET c == S.out_coro[co]
        val == CompletionWord(ret, c.task, c.id)
    IN  [ch EXCEPT ![c.o_ins] = Append(@, val)]

flb_output_return_pipe(ch, S, co, ret, n_ok) ==
    LET c == S.out_coro[co]
        val == CompletionWord(ret, c.task, c.id)
    IN  IF n_ok THEN [ch EXCEPT ![c.o_ins] = Append(@, val)] ELSE ch

\* flb_metrics_sum on one counter of the instance
flb_metrics_sum(m, o, counter, val) == [m EXCEPT ![o][counter] = @ + val]

\* flb_output_return, the metrics block
flb_output_return_metrics_retry_as_error(m, hm, S, co, ret) ==
    LET c == S.out_coro[co]
        o == c.o_ins
    IN  IF ~hm[o] THEN m
        ELSE IF ret = FLB_OK
        THEN flb_metrics_sum(flb_metrics_sum(m, o, "out_ok_records", TaskRecords(c.task)),
                             o, "out_ok_bytes", TaskSize(c.task))
        ELSE flb_metrics_sum(m, o, "out_errors", 1)

flb_output_return_metrics(m, hm, S, co, ret) ==
    LET c == S.out_coro[co]
        o == c.o_ins
    IN  IF ~hm[o] THEN m
        ELSE IF ret = FLB_OK
        THEN flb_metrics_sum(flb_metrics_sum(m, o, "out_ok_records", TaskRecords(c.task)),
                             o, "out_ok_bytes", TaskSize(c.task))
        ELSE IF ret = FLB_ERROR
        THEN flb_metrics_sum(m, o, "out_errors", 1)
        ELSE m

\* ---------------------------------------------------------------- the engine
\* the engine thread is in its event loop: no frame is executing
EngineTurn == \A c \in CoroHandles : out_coro[c].pc # "running"

NoMultiplex(o) == (flags[o] \div FLB_OUTPUT_NO_MULTIPLEX) % 2 = 1

\* the dispatcher may spawn a flush for instance o
MaySpawn(o) == ~(NoMultiplex(o) /\ Len(th_queue[o]) > 0)

FreeHandles == {c \in CoroHandles : out_coro[c].pc = "free"}

\* the words of ch2 that ch did not hold, as history records: the pipe, the
\* writing context, the word and its ordinal among the words of this write
NewWrites(ch, ch2, co) ==
    UNION {{[ins |-> o, coro |-> co, val |-> ch2[o][Len(ch[o]) + i], n |-> i] :
               i \in 1 .. (Len(ch2[o]) - Len(ch[o]))} : o \in Instances}

\* number of contexts of sequence q that belong to task t
RECURSIVE CountTask(_, _, _)
CountTask(S, q, t) ==
    IF q = <<>> THEN 0
    ELSE (IF S.out_coro[Head(q)].task = t THEN 1 ELSE 0) + CountTask(S, Tail(q), t)

\* flb_output_instance_destroy draining th_queue: every frame is torn down
RECURSIVE DrainQueue(_, _)
DrainQueue(S, q) ==
    IF q = <<>> THEN S ELSE DrainQueue(flb_coro_destroy(S, Head(q)), Tail(q))

DInit ==
    /\ users = [t \in Tasks |-> 0]
    /\ coros = [t \in Tasks |-> <<>>]
    /\ coro_id_next = [t \in Tasks |-> 0]
    /\ th_queue = [o \in Instances |-> <<>>]
    /\ out_coro = [c \in CoroHandles |-> FreeCoro]
    /\ ch_events = [o \in Instances |-> <<>>]
    /\ flags = [o \in Instances |-> InsFlags(o)]
    /\ has_metrics = [o \in Instances |-> TRUE]
    /\ metrics = [o \in Instances |->
                     [out_ok_records |-> 0, out_ok_bytes |-> 0, out_errors |-> 0]]
    /\ ins_alive = [o \in Instances |-> TRUE]
    /\ flb_coro_key = NoCoro
    /\ spawned = [t \in Tasks |-> 0]
    /\ handled = [t \in Tasks |-> 0]
    /\ cancelled = [t \in Tasks |-> 0]
    /\ wlog = {}
    /\ flb_libco_params = NoParams
    /\ co_stack = [c \in CoroHandles |-> NoParams]
    /\ cb_flush_calls = [c \in CoroHandles |-> <<>>]
    /\ wk_pc = [c \in CoroHandles |-> "none"]
    /\ wk_ret = [c \in CoroHandles |-> -1]
    /\ destroy_ret = NotCalled

\* dispatch of task t to instance o: flb_output_thread, flb_task_add_coro
Dispatch(t, o) ==
    /\ EngineTurn
    /\ ins_alive[o]
    /\ MaySpawn(o)
    /\ FreeHandles # {}
    /\ LET h == CHOOSE c \in FreeHandles : \A d \in FreeHandles : c <= d
           S1 == flb_output_thread(Heap, h, t, o, FlushArgs(t, o))
           S2 == flb_task_add_coro(S1, h, coro_id_next[t])
       IN  /\ users' = S2.users
           /\ coros' = S2.coros
           /\ th_queue' = S2.th_queue
           /\ out_coro' = S2.out_coro
           /\ flb_libco_params' = S2.params
           /\ co_stack' = S2.stack
           /\ cb_flush_calls' = S2.calls
    /\ coro_id_next' = [coro_id_next EXCEPT ![t] = @ + 1]
    /\ spawned' = [spawned EXCEPT ![t] = @ + 1]
    /\ UNCHANGED <<ch_events, flags, has_metrics, metrics, ins_alive,
                   flb_coro_key, handled, cancelled, wlog>>
    /\ UNCHANGED <<tvars, evars, wvars, hvars, rvars, svars>>

\* flb_coro_resume: the engine switches to a parked frame; resumed for the
\* first time the frame goes on in output_pre_cb_flush and calls cb_flush
Resume(c) ==
    /\ EngineTurn
    /\ out_coro[c].pc \in {"created", "waiting"}
    /\ tp_workers[out_coro[c].o_ins] = 0
    /\ out_coro' = [out_coro EXCEPT ![c].pc = "running"]
    /\ flb_coro_key' = c
    /\ cb_flush_calls' = IF out_coro[c].pc = "created"
                         THEN output_pre_cb_flush_resume(Heap, c).calls
                         ELSE cb_flush_calls
    /\ UNCHANGED <<flb_libco_params, co_stack>>
    /\ UNCHANGED <<users, coros, coro_id_next, th_queue, ch_events, flags,
                   has_metrics, metrics, ins_alive, spawned, handled,
                   cancelled, wlog>>
    /\ UNCHANGED <<tvars, evars, wvars, hvars, rvars, svars>>

\* the flush body suspends on I/O and control is back in the event loop
IoYield(c) ==
    /\ out_coro[c].pc = "running"
    /\ out_coro' = [out_coro EXCEPT ![c].pc = "waiting"]
    /\ UNCHANGED <<users, coros, coro_id_next, th_queue, ch_events, flags,
                   has_metrics, metrics, ins_alive, flb_coro_key, spawned,
                   handled, cancelled, wlog>>
    /\ UNCHANGED <<pvars, tvars, evars, wvars, hvars, rvars, svars>>

\* FLB_OUTPUT_RETURN(ret): flb_output_return_do
FlushReturn_releases(ret, n_ok) ==
    /\ flb_coro_key # NoCoro
    /\ out_coro[flb_coro_key].pc = "running"
    /\ LET co == flb_coro_key
           ch2 == flb_output_return_pipe(ch_events, Heap, co, ret, n_ok)
       IN  /\ ch_events' = ch2
           /\ wlog' = wlog \cup NewWrites(ch_events, ch2, co)
           /\ metrics' = flb_output_return_metrics(metrics, has_metrics, Heap, co, ret)
           /\ out_coro' = [out_coro EXCEPT ![co].pc = "yielded", ![co].ret = ret,
                                           ![co].n_ok = n_ok]
           /\ users' = [users EXCEPT ![out_coro[co].task] = @ - 1]
    /\ UNCHANGED <<coros, coro_id_next, th_queue, flags, has_metrics,
                   ins_alive, flb_coro_key, spawned, handled, cancelled>>
    /\ UNCHANGED <<pvars, tvars, evars, wvars, hvars, rvars, svars>>

FlushReturn(ret, n_ok) ==
    /\ flb_coro_key # NoCoro
    /\ out_coro[flb_coro_key].pc = "running"
    /\ LET co == flb_coro_key
           ch2 == flb_output_return_pipe(ch_events, Heap, co, ret, n_ok)
       IN  /\ ch_events' = ch2
           /\ wlog' = wlog \cup NewWrites(ch_events, ch2, co)
           /\ metrics' = flb_output_return_metrics(metrics, has_metrics, Heap, co, ret)
           /\ out_coro' = [out_coro EXCEPT ![co].pc = "yielded", ![co].ret = ret,
                                           ![co].n_ok = n_ok]
    /\ UNCHANGED <<users, coros, coro_id_next, th_queue, flags, has_metrics,
                   ins_alive, flb_coro_key, spawned, handled, cancelled>>
    /\ UNCHANGED <<pvars, tvars, evars, wvars, hvars, rvars, svars>>

\* the event loop reads one word of instance o's pipe and handles it
HandleCompletion(o) ==
    /\ EngineTurn
    /\ ins_alive[o]
    /\ ch_events[o] # <<>>
    /\ LET val == Head(ch_events[o])
           set == FLB_BITS_U64_LOW(val)
           t == FLB_TASK_ID(set)
           id == FLB_TASK_TH(set)
           r == IF FLB_BITS_U64_HIGH(val) = FLB_ENGINE_TASK /\ t \in Tasks
                THEN flb_output_coro_destroy_id(Heap, id, t)
                ELSE [ret |-> -1, heap |-> Heap]
       IN  /\ users' = r.heap.users
           /\ coros' = r.heap.coros
           /\ th_queue' = r.heap.th_queue
           /\ out_coro' = r.heap.out_coro
           /\ handled' = IF r.ret = 0 THEN [handled EXCEPT ![t] = @ + 1] ELSE handled
           /\ destroy_ret' = r.ret
    /\ ch_events' = [ch_events EXCEPT ![o] = Tail(@)]
    /\ wlog' = {w \in wlog : out_coro'[w.coro].pc # "destroyed"}
    /\ UNCHANGED <<coro_id_next, flags, has_metrics, metrics, ins_alive,
                   flb_coro_key, spawned, cancelled>>
    /\ UNCHANGED <<pvars, tvars, wvars, hvars, rvars, svars>>

\* flb_output_instance_destroy: the active list is drained, the pipe closed
InstanceDestroy(o) ==
    /\ EngineTurn
    /\ ins_alive[o]
    /\ LET S1 == DrainQueue(Heap, th_queue[o])
       IN  /\ users' = S1.users
           /\ coros' = S1.coros
           /\ th_queue' = S1.th_queue
           /\ out_coro' = S1.out_coro
    /\ cancelled' = [t \in Tasks |-> cancelled[t] + CountTask(Heap, th_queue[o], t)]
    /\ ch_events' = [ch_events EXCEPT ![o] = <<>>]
    /\ ins_alive' = [ins_alive EXCEPT ![o] = FALSE]
    /\ wlog' = {w \in wlog : out_coro'[w.coro].pc # "destroyed"}
    /\ UNCHANGED <<coro_id_next, flags, has_metrics, metrics, flb_coro_key,
                   spawned, handled>>
    /\ UNCHANGED <<pvars, tvars, evars, wvars, hvars, rvars, svars>>

DNext ==
    \/ \E t \in Tasks, o \in Instances : Dispatch(t, o)
    \/ \E c \in CoroHandles : Resume(c)
    \/ \E c \in CoroHandles : IoYield(c)
    \/ \E ret \in Dispositions, n_ok \in BOOLEAN : FlushReturn(ret, n_ok)
    \/ \E o \in Instances : HandleCompletion(o)
    \/ \E o \in Instances : InstanceDestroy(o)

\* states of the other parts while one part runs
WIdle ==
    /\ w_pc = "idle"
    /\ w_in = [ret |-> 0, task_id |-> 0, coro_id |-> 0]
    /\ w_val = <<0, 0, 0, 0>>
    /\ w_dec = [kind |-> 0, ret |-> 0, task_id |-> 0, coro_id |-> 0]

HIdle ==
    /\ sbuf = <<>>
    /\ mh = [i \in Cursors |-> NoHeader]
    /\ h_steps = 0
    /\ h_packed = 0

RIdle ==
    /\ r_pc = "new"
    /\ mpa = [ra_list |-> <<>>, matches |-> <<>>]
    /\ r_map = MapObj(<<>>)
    /\ r_ret = FLB_FALSE
    /\ r_out = <<>>
    /\ r_calls = 0

SIdle ==
    /\ s_in = <<>>
    /\ s_buf = <<>>
    /\ s_calls = 0

\* no instance owns a worker pool: every flush runs on the engine thread
NoPool == tp_workers = [o \in Instances |-> 0]

Init == DInit /\ NoPool /\ WIdle /\ HIdle /\ RIdle /\ SIdle
Next == DNext
Spec == Init /\ [][Next]_vars

\* ------------------------------------------------------- the worker threads
\* the pool sizes when instance 2 owns a pool of one worker
PoolWorkers(o) == IF o = 2 THEN 1 ELSE 0

\* the frame is handed to a worker of its instance's pool, which resumes it:
\* output_pre_cb_flush goes on and calls cb_flush on the worker thread
WorkerRun(c) ==
    /\ out_coro[c].pc = "created"
    /\ tp_workers[out_coro[c].o_ins] > 0
    /\ out_coro' = [out_coro EXCEPT ![c].pc = "worker"]
    /\ wk_pc' = [wk_pc EXCEPT ![c] = "flush"]
    /\ cb_flush_calls' = output_pre_cb_flush_resume(Heap, c).calls
    /\ UNCHANGED <<users, coros, coro_id_next, th_queue, ch_events, flags,
                   has_metrics, metrics, ins_alive, flb_coro_key, spawned, handled,
                   cancelled, wlog, flb_libco_params, co_stack, tp_workers, wk_ret>>
    /\ UNCHANGED <<evars, wvars, hvars, rvars, svars>>

\* flb_output_return on the worker, up to and including flb_pipe_w (a frame
\* cancelled under its running worker is not followed further)
WorkerReturnWrite(c, ret, n_ok) ==
    /\ wk_pc[c] = "flush"
    /\ out_coro[c].pc = "worker"
    /\ LET ch2 == flb_output_return_pipe(ch_events, Heap, c, ret, n_ok)
       IN  /\ ch_events' = ch2
           /\ wlog' = wlog \cup NewWrites(ch_events, ch2, c)
    /\ out_coro' = [out_coro EXCEPT ![c].ret = ret, ![c].n_ok = n_ok]
    /\ wk_pc' = [wk_pc EXCEPT ![c] = "wrote"]
    /\ wk_ret' = [wk_ret EXCEPT ![c] = ret]
    /\ UNCHANGED <<users, coros, coro_id_next, th_queue, flags, has_metrics,
                   metrics, ins_alive, flb_coro_key, spawned, handled, cancelled,
                   pvars, tp_workers>>
    /\ UNCHANGED <<evars, wvars, hvars, rvars, svars>>

\* flb_output_return on the worker, the metrics block: it reads
\* out_coro->o_ins->metrics and task->records, task->size. When the frame
\* has been freed meanwhile these reads are of freed memory: they may yield
\* any instance and any task, or nothing to update
WorkerReturnMetrics(c) ==
    /\ wk_pc[c] = "wrote"
    /\ IF out_coro[c].pc = "worker"
       THEN metrics' = flb_output_return_metrics(metrics, has_metrics, Heap, c, wk_ret[c])
       ELSE \E o \in Instances, t \in Tasks, hm \in BOOLEAN :
               metrics' = flb_output_return_metrics(
                              metrics, [has_metrics EXCEPT ![o] = hm],
                              [Heap EXCEPT !.out_coro[c] = DeadCoro(t, o)], c, wk_ret[c])
    /\ wk_pc' = [wk_pc EXCEPT ![c] = "counted"]
    /\ UNCHANGED <<users, coros, coro_id_next, th_queue, out_coro, ch_events, flags,
                   has_metrics, ins_alive, flb_coro_key, spawned, handled, cancelled,
                   wlog, pvars, tp_workers, wk_ret>>
    /\ UNCHANGED <<evars, wvars, hvars, rvars, svars>>

\* flb_output_return_do on the worker: flb_coro_yield(co, FLB_TRUE)
WorkerYield(c) ==
    /\ wk_pc[c] = "counted"
    /\ wk_pc' = [wk_pc EXCEPT ![c] = "done"]
    /\ out_coro' = IF out_coro[c].pc = "worker"
                   THEN [out_coro EXCEPT ![c].pc = "yielded"]
                   ELSE out_coro
    /\ UNCHANGED <<users, coros, coro_id_next, th_queue, ch_events, flags,
                   has_metrics, metrics, ins_alive, flb_coro_key, spawned, handled,
                   cancelled, wlog, pvars, tp_workers, wk_ret>>
    /\ UNCHANGED <<evars, wvars, hvars, rvars, svars>>

InitWorker ==
    /\ DInit
    /\ tp_workers = [o \in Instances |-> PoolWorkers(o)]
    /\ WIdle /\ HIdle /\ RIdle /\ SIdle

NextWorker ==
    \/ \E t \in Tasks, o \in Instances : Dispatch(t, o)
    \/ \E c \in CoroHandles : Resume(c)
    \/ \E c \in CoroHandles : IoYield(c)
    \/ \E ret \in Dispositions, n_ok \in BOOLEAN : FlushReturn(ret, n_ok)
    \/ \E o \in Instances : HandleCompletion(o)
    \/ \E o \in Instances : InstanceDestroy(o)
    \/ \E c \in CoroHandles : WorkerRun(c)
    \/ \E c \in CoroHandles, ret \in Dispositions, n_ok \in BOOLEAN :
          WorkerReturnWrite(c, ret, n_ok)
    \/ \E c \in CoroHandles : WorkerReturnMetrics(c)
    \/ \E c \in CoroHandles : WorkerYield(c)

SpecWorker == InitWorker /\ [][NextWorker]_vars

\* ------------------------------------------- destroy by id, called directly
\* the ids flb_output_coro_destroy_id is called with: those the tasks hand
\* out in one behaviour and one more, which no context carries
DestroyIds == 0 .. MaxCoros

\* flb_output_coro_destroy_id(id, task) called from the event loop without a
\* word read for it (a word decoded a second time, a word of another origin)
DestroyId(id, t) ==
    /\ EngineTurn
    /\ LET r == flb_output_coro_destroy_id(Heap, id, t)
       IN  /\ users' = r.heap.users
           /\ coros' = r.heap.coros
           /\ th_queue' = r.heap.th_queue
           /\ out_coro' = r.heap.out_coro
           /\ handled' = IF r.ret = 0 THEN [handled EXCEPT ![t] = @ + 1] ELSE handled
           /\ destroy_ret' = r.ret
    /\ wlog' = {w \in wlog : out_coro'[w.coro].pc # "destroyed"}
    /\ UNCHANGED <<coro_id_next, ch_events, flags, has_metrics, metrics, ins_alive,
                   flb_coro_key, spawned, cancelled>>
    /\ UNCHANGED <<pvars, tvars, wvars, hvars, rvars, svars>>

\* dispatches, returns with FLB_OK and the word delivered, and the handling
\* of the words, with the direct calls between them
NextDestroy ==
    \/ \E t \in Tasks, o \in Instances : Dispatch(t, o)
    \/ \E c \in CoroHandles : Resume(c)
    \/ FlushReturn(FLB_OK, TRUE)
    \/ \E o \in Instances : HandleCompletion(o)
    \/ \E id \in DestroyIds, t \in Tasks : DestroyId(id, t)

SpecDestroy == Init /\ [][NextDestroy]_vars

\* ------------------------------------------------- the completion word alone
\* flb_output_return composes the word of one return
Compose(ret, task_id, coro_id) ==
    /\ w_pc = "idle"
    /\ w_pc' = "composed"
    /\ w_in' = [ret |-> ret, task_id |-> task_id, coro_id |-> coro_id]
    /\ w_val' = CompletionWord(ret, task_id, coro_id)
    /\ UNCHANGED <<w_dec, dvars, hvars, rvars, svars>>

\* the engine decodes the word by mask and shift
Decode ==
    /\ w_pc = "composed"
    /\ w_pc' = "decoded"
    /\ w_dec' = [kind |-> FLB_BITS_U64_HIGH(w_val),
                 ret |-> FLB_TASK_RET(FLB_BITS_U64_LOW(w_val)),
                 task_id |-> FLB_TASK_ID(FLB_BITS_U64_LOW(w_val)),
                 coro_id |-> FLB_TASK_TH(FLB_BITS_U64_LOW(w_val))]
    /\ UNCHANGED <<w_in, w_val, dvars, hvars, rvars, svars>>

WordNext ==
    \/ \E ret \in Dispositions, task_id \in IdSamples, coro_id \in IdSamples :
          Compose(ret, task_id, coro_id)
    \/ Decode

SpecWord == Init /\ [][WordNext]_vars

\* ------------------------------------------------------- the header cursors
\* flb_mp_map_header_init / flb_mp_array_header_init on the next free cursor
HeaderInit(i, type) ==
    /\ mh[i].pc = "unused"
    /\ \A j \in Cursors : j < i => mh[j].pc # "unused"
    /\ LET r == IF type = FLB_MP_MAP
                THEN flb_mp_map_header_init(sbuf)
                ELSE flb_mp_array_header_init(sbuf)
       IN  /\ sbuf' = r.sbuf
           /\ mh' = [mh EXCEPT ![i] = [pc |-> "open", type |-> type,
                                       offset |-> r.offset, entries |-> r.entries,
                                       n |-> <<0, 0>>]]
    /\ UNCHANGED <<h_steps, h_packed, dvars, wvars, rvars, svars>>

\* a run of k calls of flb_mp_map_header_append / flb_mp_array_header_append
HeaderAppend(i, k) ==
    /\ mh[i].pc = "open"
    /\ h_steps < MaxAppends
    /\ AddN(mh[i].n, k)[1] <= W16
    /\ mh' = [mh EXCEPT ![i].entries = flb_mp_map_header_append(@, k),
                        ![i].n = AddN(@, k)]
    /\ h_steps' = h_steps + 1
    /\ UNCHANGED <<sbuf, h_packed, dvars, wvars, rvars, svars>>

\* the caller packs a payload object (msgpack_pack_true) into the buffer
PackObject ==
    /\ h_packed < MaxPacked
    /\ sbuf' = Append(sbuf, 195)
    /\ h_packed' = h_packed + 1
    /\ UNCHANGED <<mh, h_steps, dvars, wvars, rvars, svars>>

\* flb_mp_map_header_end / flb_mp_array_header_end
HeaderEnd(i) ==
    /\ mh[i].pc = "open"
    /\ sbuf' = IF mh[i].type = FLB_MP_MAP
               THEN flb_mp_map_header_end(sbuf, mh[i])
               ELSE flb_mp_array_header_end(sbuf, mh[i])
    /\ mh' = [mh EXCEPT ![i].pc = "closed"]
    /\ UNCHANGED <<h_steps, h_packed, dvars, wvars, rvars, svars>>

HeaderNext ==
    \/ \E i \in Cursors, type \in {FLB_MP_MAP, FLB_MP_ARRAY} : HeaderInit(i, type)
    \/ \E i \in Cursors, k \in AppendRuns : HeaderAppend(i, k)
    \/ PackObject
    \/ \E i \in Cursors : HeaderEnd(i)

SpecHeader == Init /\ [][HeaderNext]_vars

\* ------------------------------------------------------------- key removal
\* flb_mp_accessor_create on a list of patterns
AccessorCreate(patterns) ==
    /\ r_pc = "new"
    /\ r_pc' = "ready"
    /\ mpa' = flb_mp_accessor_create(patterns)
    /\ UNCHANGED <<r_map, r_ret, r_out, r_calls, dvars, wvars, hvars, svars>>

\* the pointers a matches table holds from an earlier call when the record
\* of this call lies elsewhere in memory: they equal no address of it
StaleAddr(a) == IF a = NullAddr THEN a ELSE <<0>> \o a
Elsewhere(m) ==
    [m EXCEPT !.matches =
        [i \in 1 .. Len(m.ra_list) |->
            [matched |-> m.matches[i].matched,
             start_key |-> StaleAddr(m.matches[i].start_key),
             key |-> StaleAddr(m.matches[i].key),
             val |-> StaleAddr(m.matches[i].val)]]]

\* flb_mp_accessor_keys_remove on a decoded record, which the caller has
\* decoded where the record of the call before lay (same) or elsewhere
KeysRemove(map) ==
    /\ r_pc = "ready"
    /\ r_calls < MaxCalls
    /\ r_map' = map
    /\ r_calls' = r_calls + 1
    /\ \E same \in BOOLEAN :
          LET r == flb_mp_accessor_keys_remove(IF same THEN mpa ELSE Elsewhere(mpa),
                                               map, r_out)
          IN  /\ mpa' = r.mpa
              /\ r_ret' = r.ret
              /\ r_out' = r.out
    /\ UNCHANGED <<r_pc, dvars, wvars, hvars, svars>>

RemoveNext ==
    \/ \E patterns \in PatternLists : AccessorCreate(patterns)
    \/ \E i \in 1 .. Len(RecordSamples) : KeysRemove(RecordSamples[i])
    \/ \E i \in 1 .. Len(NonMapSamples) : KeysRemove(NonMapSamples[i])

SpecRemove == Init /\ [][RemoveNext]_vars

\* ------------------------------------------------- the size setters alone
\* the container headers of msgpack with the count 2: fixmap, map 16,
\* map 32, fixarray, array 16, array 32
HeaderForms ==
    {<<130>>, <<222, 0, 2>>, <<223, 0, 0, 0, 2>>,
     <<146>>, <<220, 0, 2>>, <<221, 0, 0, 0, 2>>}

\* the header lies between payload bytes (true, true true); buf points at it
HeaderBufs == {<<195>> \o h \o <<195, 195>> : h \in HeaderForms}
HeaderOff == Len(<<195>>)

\* int size: 0, 1, 15, 16, 94, 255, 256, 65535, 65536, 2^31 - 1 and, as the
\* int they are passed as, 2^31 and 2^32 - 1
SizeSamples ==
    {IntOfU32(x) : x \in {<<0, 0>>, <<0, 1>>, <<0, 15>>, <<0, 16>>, <<0, 94>>,
                          <<0, 255>>, <<0, 256>>, <<0, W16 - 1>>, <<1, 0>>,
                          <<(W16 \div 2) - 1, W16 - 1>>, <<W16 \div 2, 0>>,
                          <<W16 - 1, W16 - 1>>}}

\* flb_mp_set_map_header_size(buf, size)
SetMapHeaderSize(size) ==
    /\ s_calls < MaxSets
    /\ s_buf' = flb_mp_set_map_header_size(s_buf, HeaderOff, size)
    /\ s_calls' = s_calls + 1
    /\ UNCHANGED <<s_in, dvars, wvars, hvars, rvars>>

\* flb_mp_set_array_header_size(buf, size)
SetArrayHeaderSize(size) ==
    /\ s_calls < MaxSets
    /\ s_buf' = flb_mp_set_array_header_size(s_buf, HeaderOff, size)
    /\ s_calls' = s_calls + 1
    /\ UNCHANGED <<s_in, dvars, wvars, hvars, rvars>>

InitSetSize ==
    /\ DInit /\ NoPool /\ WIdle /\ HIdle /\ RIdle
    /\ s_in \in HeaderBufs
    /\ s_buf = s_in
    /\ s_calls = 0

NextSetSize ==
    \/ \E size \in SizeSamples : SetMapHeaderSize(size)
    \/ \E size \in SizeSamples : SetArrayHeaderSize(size)

SpecSetSize == InitSetSize /\ [][NextSetSize]_vars

\* --------------------------------------------------------------- properties
\* the words the history holds for context c
WordsOf(c) == {w \in wlog : w.coro = c}

\* the word w names context c: event kind TASK, c's task id and frame id
WordNames(w, c) ==
    /\ FLB_BITS_U64_HIGH(w.val) = FLB_ENGINE_TASK
    /\ FLB_TASK_ID(FLB_BITS_U64_LOW(w.val)) = out_coro[c].task
    /\ FLB_TASK_TH(FLB_BITS_U64_LOW(w.val)) = out_coro[c].id
    /\ FLB_TASK_RET(FLB_BITS_U64_LOW(w.val)) = out_coro[c].ret

\* C1: for a task with K spawned flush contexts, none of them cancelled,
\* users is > 0 while fewer than K completion words have been handled with
\* flb_output_coro_destroy_id, and users = 0 only once all K have been.
C1_CompletionAccounting ==
    \A t \in Tasks :
        (spawned[t] >= 1 /\ cancelled[t] = 0) =>
            /\ (handled[t] < spawned[t] => users[t] > 0)
            /\ (users[t] = 0 => handled[t] = spawned[t])

\* C2: task.users equals the number of live flush contexts linked on the
\* task's context list and is never negative.
C2_UsersCountsLiveContexts ==
    \A t \in Tasks : users[t] = Len(coros[t]) /\ users[t] >= 0

\* C6: an instance whose flags contain FLB_OUTPUT_NO_MULTIPLEX never has more
\* than one flush context linked in its th_queue.
C6_NoMultiplexHonoured ==
    \A o \in Instances : NoMultiplex(o) => Len(th_queue[o]) <= 1

\* a no-multiplex instance whose earlier flush has been destroyed and whose
\* next flush is active, a further spawn for it being deferred
C6_Witness ==
    \E o \in Instances, c \in CoroHandles :
        /\ NoMultiplex(o)
        /\ ins_alive[o]
        /\ th_queue[o] = <<c>>
        /\ out_coro[c].pc \in {"created", "waiting"}
        /\ ~MaySpawn(o)
        /\ \E d \in CoroHandles \ {c} :
              out_coro[d].pc = "destroyed" /\ out_coro[d].o_ins = o

\* C7 as stated: every context whose flush has returned has exactly one word
\* written for it, on the pipe of its own instance and naming its task id and
\* frame id; a context whose flush has not returned has none.
C7_ExactlyOneWord ==
    \A c \in CoroHandles :
        /\ out_coro[c].pc \in {"free", "created", "running", "waiting"} =>
               WordsOf(c) = {}
        /\ out_coro[c].pc = "yielded" =>
               /\ Cardinality(WordsOf(c)) = 1
               /\ \A w \in WordsOf(c) : w.ins = out_coro[c].o_ins /\ WordNames(w, c)

\* C7 (amended): a context whose flush has returned has exactly one word
\* written for it when the pipe write succeeded and none when it failed; the
\* word is on the pipe of its own instance and names its task id and frame
\* id; a context whose flush has not returned has none.
C7_OneWordUnlessWriteFails ==
    \A c \in CoroHandles :
        /\ out_coro[c].pc \in {"free", "created", "running", "waiting"} =>
               WordsOf(c) = {}
        /\ out_coro[c].pc = "yielded" =>
               /\ Cardinality(WordsOf(c)) = (IF out_coro[c].n_ok THEN 1 ELSE 0)
               /\ \A w \in WordsOf(c) : w.ins = out_coro[c].o_ins /\ WordNames(w, c)

\* two contexts of different instances have returned, each with its one word
C7_Witness ==
    \E c, d \in CoroHandles :
        /\ out_coro[c].pc = "yielded" /\ out_coro[d].pc = "yielded"
        /\ out_coro[c].o_ins # out_coro[d].o_ins
        /\ out_coro[c].id + out_coro[c].task > 0
        /\ Cardinality(WordsOf(c)) = 1 /\ Cardinality(WordsOf(d)) = 1

\* C8: instance destruction tears every context of the active list down
\* through cb_output_coro_destroy: users of its task drops by exactly one per
\* context, the context leaves both lists, and no word is written to a pipe.
C8_Cancellation ==
    [][\A o \in Instances :
          InstanceDestroy(o) =>
              /\ \A t \in Tasks :
                    users'[t] = users[t] - CountTask(Heap, th_queue[o], t)
              /\ \A i \in 1 .. Len(th_queue[o]) :
                    /\ ~InList(th_queue'[o], th_queue[o][i])
                    /\ ~InList(coros'[out_coro[th_queue[o][i]].task], th_queue[o][i])
              /\ \A p \in Instances : Len(ch_events'[p]) <= Len(ch_events[p])
              /\ wlog' \subseteq wlog]_vars

\* an instance was destroyed with a flush in flight
C8_Witness ==
    \E t \in Tasks, o \in Instances :
        /\ cancelled[t] > 0
        /\ ~ins_alive[o]
        /\ th_queue[o] = <<>>

\* C9: a return with OK credits task.records and task.size to the owning
\* instance, nothing else of the spawn / return / completion sequence changes
\* a counter, and handling the completion word of the last outstanding
\* context of a task leaves the task with users = 0.
C9_OkCreditedOnce ==
    [][/\ \A n_ok \in BOOLEAN :
             FlushReturn(FLB_OK, n_ok) =>
                 metrics'[out_coro[flb_coro_key].o_ins] =
                     [metrics[out_coro[flb_coro_key].o_ins] EXCEPT
                         !.out_ok_records = @ + TaskRecords(out_coro[flb_coro_key].task),
                         !.out_ok_bytes = @ + TaskSize(out_coro[flb_coro_key].task)]
       /\ (~ \E ret \in Dispositions, n_ok \in BOOLEAN : FlushReturn(ret, n_ok)) =>
              metrics' = metrics
       /\ \A o \in Instances, t \in Tasks :
             (/\ HandleCompletion(o)
              /\ handled'[t] = handled[t] + 1
              /\ handled'[t] = spawned[t]
              /\ cancelled[t] = 0) => users'[t] = 0]_vars

\* C10: a return with RETRY changes no counter, a return with ERROR adds
\* exactly 1 to out_errors of the owning instance and nothing else, and no
\* return changes the counters of another instance.
C10_DispositionDecidesMetrics ==
    [][\A ret \in Dispositions, n_ok \in BOOLEAN :
          FlushReturn(ret, n_ok) =>
              /\ \A p \in Instances \ {out_coro[flb_coro_key].o_ins} :
                    metrics'[p] = metrics[p]
              /\ ret = FLB_RETRY => metrics' = metrics
              /\ ret = FLB_ERROR =>
                    metrics'[out_coro[flb_coro_key].o_ins] =
                        [metrics[out_coro[flb_coro_key].o_ins] EXCEPT
                            !.out_errors = @ + 1]]_vars

\* one flush has returned RETRY and another ERROR
C10_Witness ==
    \E c, d \in CoroHandles :
        /\ out_coro[c].pc = "yielded" /\ out_coro[c].ret = FLB_RETRY
        /\ out_coro[d].pc = "yielded" /\ out_coro[d].ret = FLB_ERROR
        /\ metrics[out_coro[d].o_ins].out_errors = 1

\* C5: the word composed for a disposition, a task id and a frame id below
\* 2^15 has event kind TASK = 2 in its high 32 bits and, in its low 32 bits,
\* the three fields side by side (disposition * 2^30 + task id * 2^15 + frame
\* id), and decoding by mask and shift returns exactly what was encoded.
C5_WordRoundTrip ==
    /\ w_pc # "idle" =>
           w_val = <<0, FLB_ENGINE_TASK,
                     w_in.ret * (2 ^ 14) + w_in.task_id \div 2,
                     (w_in.task_id % 2) * (2 ^ 15) + w_in.coro_id>>
    /\ w_pc = "decoded" =>
           w_dec = [kind |-> FLB_ENGINE_TASK, ret |-> w_in.ret,
                    task_id |-> w_in.task_id, coro_id |-> w_in.coro_id]

\* the word of RETRY with the largest task id and a smaller frame id, decoded
C5_Witness ==
    /\ w_pc = "decoded"
    /\ w_in = [ret |-> FLB_RETRY, task_id |-> 2 ^ 15 - 1, coro_id |-> 2 ^ 14]

\* C4: a closed cursor on which N <= 2^32 - 1 append calls were made has, at
\* its offset, a header of the 32-bit form of its family (map or array) whose
\* count field is N.
C4_HeaderRoundTrip ==
    \A i \in Cursors :
        (mh[i].pc = "closed" /\ mh[i].n[1] < W16) =>
            /\ ReadHeader(sbuf, mh[i].offset).family = mh[i].type
            /\ ReadHeader(sbuf, mh[i].offset).width = 5
            /\ ReadHeader(sbuf, mh[i].offset).count = mh[i].n

\* a map closed after 2^32 - 1 append calls and an array closed after none
C4_Witness ==
    \E i, j \in Cursors :
        /\ mh[i].pc = "closed" /\ mh[i].type = FLB_MP_MAP
        /\ mh[i].n = <<W16 - 1, W16 - 1>>
        /\ mh[j].pc = "closed" /\ mh[j].type = FLB_MP_ARRAY
        /\ mh[j].n = <<0, 0>>

\* the record obj with the subtrees named by the patterns pats deleted
RECURSIVE RemoveNamed(_, _)
RECURSIVE KeepPairs(_, _, _)
RECURSIVE KeepElems(_, _, _)
RemoveNamed(obj, pats) ==
    IF obj.t = "map" THEN MapObj(KeepPairs(obj.v, pats, 1))
    ELSE IF obj.t = "array" THEN ArrObj(KeepElems(obj.v, pats, 1))
    ELSE obj

KeepElems(els, pats, i) ==
    IF i > Len(els) THEN <<>>
    ELSE IF << Idx(i - 1) >> \in pats
    THEN KeepElems(els, pats, i + 1)
    ELSE << RemoveNamed(els[i],
                        {Tail(q) : q \in {x \in pats : Len(x) > 1 /\ x[1] = Idx(i - 1)}}) >>
         \o KeepElems(els, pats, i + 1)

KeepPairs(kvs, pats, i) ==
    IF i > Len(kvs) THEN <<>>
    ELSE LET k == kvs[i][1].v
         IN  IF <<k>> \in pats
             THEN KeepPairs(kvs, pats, i + 1)
             ELSE << <<kvs[i][1],
                       RemoveNamed(kvs[i][2],
                                   {Tail(q) : q \in {x \in pats : Len(x) > 1 /\ x[1] = k}})>> >>
                  \o KeepPairs(kvs, pats, i + 1)

PatternsOf(m) == {m.ra_list[i] : i \in 1 .. Len(m.ra_list)}

\* C3: when flb_mp_accessor_keys_remove returns FLB_TRUE, the buffer it
\* returned decodes, whole, to the record of the call with exactly the
\* subtrees named by the accessor's patterns deleted and the other pairs in
\* their order at every level
C3_RemovalCorrectness ==
    (r_calls >= 1 /\ r_ret = FLB_TRUE) =>
        /\ ParseObj(r_out, 1).ok
        /\ ParseObj(r_out, 1).next = Len(r_out) + 1
        /\ ParseObj(r_out, 1).obj = RemoveNamed(r_map, PatternsOf(mpa))

\* a.b and a.c removed from {a:{b:1,c:2,d:3},f:4} in the first call on the
\* accessor: the buffer decodes to {a:{c:2,d:3},f:4}, c is still there
C3_SecondPatternIgnored ==
    /\ r_calls = 1
    /\ mpa.ra_list = << << key_a, key_b >>, << key_a, key_c >> >>
    /\ r_map = RecordSamples[2]
    /\ r_ret = FLB_TRUE
    /\ ParseObj(r_out, 1).obj =
           MapObj(<< <<Key(key_a), MapObj(<< <<Key(key_c), IntObj(2)>>,
                                          <<Key(key_d), IntObj(3)>> >>)>>,
                     <<Key(key_f), IntObj(4)>> >>)

\* no pattern of the accessor m matches the object map
NoPatternMatches(m, map) ==
    \A i \in 1 .. Len(m.ra_list) : flb_ra_get_kv_pair(m.ra_list[i], map).ret # 0

\* C12: a call of flb_mp_accessor_keys_remove on a map record that no
\* pattern of the accessor matches (the empty map included) returns
\* FLB_FALSE and leaves *out_buf, with its size, as it was.
C12_UnmodifiedPassthrough ==
    [][\A i \in 1 .. Len(RecordSamples) :
          (KeysRemove(RecordSamples[i]) /\ NoPatternMatches(mpa, RecordSamples[i])) =>
              (r_ret' = FLB_FALSE /\ r_out' = r_out)]_vars

\* a second call, on a record no pattern matches, after a first call that
\* produced a buffer: FLB_FALSE, and the buffer of the first call still there
C12_Witness ==
    /\ r_calls = 2
    /\ r_ret = FLB_FALSE
    /\ r_out # <<>>
    /\ Len(mpa.ra_list) >= 1
    /\ r_map.t = "map"
    /\ NoPatternMatches(mpa, r_map)

\* C14: with a single pattern in the accessor, a call that returns FLB_TRUE
\* returns a buffer that decodes, whole, to the record with only the pair
\* the pattern names removed: enclosing maps, siblings and the other
\* top-level pairs are kept in their order.
C14_SinglePatternRemoval ==
    (r_calls >= 1 /\ Len(mpa.ra_list) = 1 /\ r_map.t = "map") =>
        /\ (r_ret = FLB_TRUE) = ~NoPatternMatches(mpa, r_map)
        /\ r_ret = FLB_TRUE =>
               /\ ParseObj(r_out, 1).ok
               /\ ParseObj(r_out, 1).next = Len(r_out) + 1
               /\ ParseObj(r_out, 1).obj = RemoveNamed(r_map, PatternsOf(mpa))

\* a.b.c removed from {a:{b:{c:1,d:2},e:3},f:4}: {a:{b:{d:2},e:3},f:4}
C14_Witness ==
    /\ r_calls >= 1
    /\ mpa.ra_list = << <<key_a, key_b, key_c>> >>
    /\ r_map = RecordSamples[1]
    /\ r_ret = FLB_TRUE
    /\ ParseObj(r_out, 1).obj =
           MapObj(<< <<Key(key_a),
                       MapObj(<< <<Key(key_b), MapObj(<< <<Key(key_d), IntObj(2)>> >>)>>,
                                 <<Key(key_e), IntObj(3)>> >>)>>,
                     <<Key(key_f), IntObj(4)>> >>)

\* C17: a call of flb_mp_accessor_keys_remove on an object that is no map
\* returns -1 and leaves *out_buf as it was.
C17_BadRecordRejected ==
    [][\A i \in 1 .. Len(NonMapSamples) :
          KeysRemove(NonMapSamples[i]) => (r_ret' = -1 /\ r_out' = r_out)]_vars

\* a call on an object that is no map has returned FLB_FALSE
C17_NonMapUnmodified ==
    /\ r_calls >= 1
    /\ r_map.t # "map"
    /\ r_ret = FLB_FALSE

\* C13: flb_mp_map_header_end / flb_mp_array_header_end change nothing but
\* the 4 count bytes after the tag byte at the cursor's offset: the length of
\* the buffer, the tag byte and every other byte are as before.
C13_CloseInPlace ==
    [][\A i \in Cursors :
          HeaderEnd(i) =>
              /\ Len(sbuf') = Len(sbuf)
              /\ \A p \in 1 .. Len(sbuf) :
                    (p <= mh[i].offset + 1 \/ p > mh[i].offset + 5) => sbuf'[p] = sbuf[p]]_vars

\* a closed cursor whose count bytes were rewritten, with payload after its
\* header in the buffer
C13_Witness ==
    \E i \in Cursors :
        /\ mh[i].pc = "closed"
        /\ h_packed >= 1
        /\ Len(sbuf) > mh[i].offset + 5
        /\ ReadHeader(sbuf, mh[i].offset).count # <<1, 0>>

\* C16: a cursor on which more entries were registered than the 32-bit count
\* field holds is not closed: the builder reports an overflow instead.
C16_OverflowReported ==
    \A i \in Cursors : mh[i].n[1] >= W16 => mh[i].pc # "closed"

\* a cursor closed after 2^32 append calls: the header holds the count 0
C16_WrappedCount ==
    \E i \in Cursors :
        /\ mh[i].pc = "closed"
        /\ mh[i].n = <<W16, 0>>
        /\ ReadHeader(sbuf, mh[i].offset).count = <<0, 0>>

WorkerStep(c) ==
    \/ WorkerRun(c)
    \/ \E ret \in Dispositions, n_ok \in BOOLEAN : WorkerReturnWrite(c, ret, n_ok)
    \/ WorkerReturnMetrics(c)
    \/ WorkerYield(c)

\* C11: no step of a worker thread changes a metrics counter: a frame that
\* returns on a worker writes its completion word and leaves the counters
\* to the engine thread.
C11_MetricsOnEngineThreadOnly ==
    [][\A c \in CoroHandles : WorkerStep(c) => metrics' = metrics]_vars

\* a frame returned FLB_OK on a worker, its word still unread in the pipe,
\* and the counters of its instance are already credited
C11_CountedOnWorker ==
    \E c \in CoroHandles :
        /\ out_coro[c].pc = "worker"
        /\ wk_pc[c] = "counted"
        /\ wk_ret[c] = FLB_OK
        /\ ch_events[out_coro[c].o_ins] # <<>>
        /\ metrics[out_coro[c].o_ins].out_ok_records = TaskRecords(out_coro[c].task)

\* C18: the frame that flb_output_coro_destroy_id destroys when a completion
\* word is handled is not being executed by a worker: its flb_output_return
\* has made its last access to the context and the task and the frame has
\* yielded.
C18_NoDestroyWhileRunning ==
    [][\A o \in Instances, c \in CoroHandles :
          (/\ HandleCompletion(o)
           /\ out_coro[c].pc # "destroyed"
           /\ out_coro'[c].pc = "destroyed") => wk_pc[c] \in {"none", "done"}]_vars

\* a frame destroyed on its completion word while its worker is still in
\* flb_output_return, before the metrics block
C18_FreedUnderWorker ==
    \E c \in CoroHandles :
        /\ out_coro[c].pc = "destroyed"
        /\ wk_pc[c] = "wrote"
        /\ handled[out_coro[c].task] >= 1

\* C21: no two contexts linked on one task's context list carry the same id,
\* and the event loop, handling a word, destroys the context that wrote it and
\* no other, also while the task has further flushes in flight.
C21_FrameIdsUnique ==
    /\ [](\A t \in Tasks : \A i, j \in 1 .. Len(coros[t]) :
             i # j => out_coro[coros[t][i]].id # out_coro[coros[t][j]].id)
    /\ [][\A o \in Instances :
             HandleCompletion(o) =>
                 /\ \A c \in CoroHandles :
                       (out_coro[c].pc # "destroyed" /\ out_coro'[c].pc = "destroyed") =>
                           \E w \in WordsOf(c) :
                               w.ins = o /\ w.val = Head(ch_events[o])
                 /\ \A w \in wlog :
                       (w.ins = o /\ w.val = Head(ch_events[o])) =>
                           out_coro'[w.coro].pc = "destroyed"]_vars

\* a task had two flushes in flight; the word of the later one was handled
\* first and destroyed it, the earlier context is still linked on the task
C21_Witness ==
    \E t \in Tasks, c, d \in CoroHandles :
        /\ c < d
        /\ out_coro[c].task = t /\ out_coro[d].task = t
        /\ coros[t] = <<c>>
        /\ out_coro[c].pc \in {"created", "waiting", "yielded"}
        /\ out_coro[d].pc = "destroyed"
        /\ handled[t] = 1 /\ cancelled[t] = 0

\* C22: when flb_pipe_w fails, flb_output_return goes on and the frame
\* yields; no word reaches a pipe, and the context stays linked on its task's
\* list and its instance's active list with task.users as it was; no word
\* releases it afterwards.
C22_WriteFailureKeepsContext ==
    /\ [][\A ret \in Dispositions :
             FlushReturn(ret, FALSE) =>
                 /\ out_coro'[flb_coro_key].pc = "yielded"
                 /\ ch_events' = ch_events
                 /\ wlog' = wlog
                 /\ users' = users /\ coros' = coros /\ th_queue' = th_queue
                 /\ InList(coros'[out_coro[flb_coro_key].task], flb_coro_key)
                 /\ InList(th_queue'[out_coro[flb_coro_key].o_ins], flb_coro_key)]_vars
    /\ [](\A c \in CoroHandles :
             (out_coro[c].pc = "yielded" /\ ~out_coro[c].n_ok) =>
                 /\ WordsOf(c) = {}
                 /\ InList(coros[out_coro[c].task], c)
                 /\ InList(th_queue[out_coro[c].o_ins], c))

\* a flush returned with the pipe write failing and the event loop went on:
\* it handled the word of another context of the same task, the context
\* whose word was lost is still linked
C22_Witness ==
    \E c, d \in CoroHandles :
        /\ out_coro[c].pc = "yielded" /\ ~out_coro[c].n_ok
        /\ out_coro[d].pc = "destroyed" /\ out_coro[d].task = out_coro[c].task
        /\ handled[out_coro[c].task] = 1
        /\ InList(coros[out_coro[c].task], c)
        /\ ch_events[out_coro[c].o_ins] = <<>>

\* C23: a return from a flush, on the engine thread or on a worker, leaves
\* the instances' active lists, the tasks' context lists and task.users as
\* they were; a step that changes one of them is a dispatch (construction),
\* the handling of a completion word or the destruction of an instance.
C23_ReturnKeepsLists ==
    [][/\ (\/ \E ret \in Dispositions, n_ok \in BOOLEAN : FlushReturn(ret, n_ok)
           \/ \E c \in CoroHandles : WorkerStep(c)) =>
              (users' = users /\ coros' = coros /\ th_queue' = th_queue)
       /\ (users' # users \/ coros' # coros \/ th_queue' # th_queue) =>
              \/ \E t \in Tasks, o \in Instances : Dispatch(t, o)
              \/ \E o \in Instances : HandleCompletion(o)
              \/ \E o \in Instances : InstanceDestroy(o)]_vars

\* one flush has returned on the engine thread and one on a worker; both
\* contexts are linked as they were when they were dispatched
C23_Witness ==
    \E c, d \in CoroHandles :
        /\ out_coro[c].pc = "yielded" /\ wk_pc[c] = "none"
        /\ out_coro[d].pc = "yielded" /\ wk_pc[d] = "done"
        /\ \A e \in {c, d} :
              /\ InList(coros[out_coro[e].task], e)
              /\ InList(th_queue[out_coro[e].o_ins], e)
              /\ users[out_coro[e].task] >= 1

\* the containers of a decoded object that hold more items than the
\* container at the same place of the object orig
RECURSIVE Grown(_, _)
Grown(obj, orig) ==
    \/ obj.t \in {"map", "array"} /\ orig.t = obj.t /\ Len(obj.v) > Len(orig.v)
    \/ /\ obj.t = "array" /\ orig.t = "array" /\ Len(obj.v) = Len(orig.v)
       /\ \E i \in 1 .. Len(obj.v) : Grown(obj.v[i], orig.v[i])
    \/ /\ obj.t = "map" /\ orig.t = "map" /\ Len(obj.v) = Len(orig.v)
       /\ \E i \in 1 .. Len(obj.v) : Grown(obj.v[i][2], orig.v[i][2])

\* the top-level pairs of the record of the last call that the rewrite left
\* out: those whose key is the key of the match it is the anchor of
ElidedTop ==
    {i \in 1 .. Len(r_map.v) :
        LET id == accessor_key_find_match(mpa, KeyAddr(<<>>, i))
        IN  id # -1 /\ mpa.matches[id].key = KeyAddr(<<>>, i)}

\* C24: the buffer flb_mp_accessor_keys_remove returns is one object to a
\* msgpack decoder, so every header in it, rebuilt or copied, counts the
\* items that follow it: the top-level map has the pairs of the record
\* less the elided ones, and no container holds more than it held before.
C24_HeaderCountsMatch ==
    (r_calls >= 1 /\ r_ret = FLB_TRUE) =>
        /\ ParseObj(r_out, 1).ok
        /\ ParseObj(r_out, 1).next = Len(r_out) + 1
        /\ ParseObj(r_out, 1).obj.t = "map"
        /\ Len(ParseObj(r_out, 1).obj.v) = Len(r_map.v) - Cardinality(ElidedTop)
        /\ ~Grown(ParseObj(r_out, 1).obj, r_map)

\* f[0] removed from {f:[1,{b:2}],a:5}, an element of the array elided, or
\* f[1].b removed from it, the map inside the array left empty
C24_Witness ==
    /\ r_calls >= 1
    /\ r_ret = FLB_TRUE
    /\ r_map = RecordSamples[4]
    /\ \/ /\ mpa.ra_list = << << key_f, Idx(0) >> >>
          /\ ParseObj(r_out, 1).obj =
                 MapObj(<< <<Key(key_f),
                             ArrObj(<< MapObj(<< <<Key(key_b), IntObj(2)>> >>) >>)>>,
                           <<Key(key_a), IntObj(5)>> >>)
       \/ /\ mpa.ra_list = << << key_f, Idx(1), key_b >> >>
          /\ ParseObj(r_out, 1).obj =
                 MapObj(<< <<Key(key_f), ArrObj(<< IntObj(1), MapObj(<<>>) >>)>>,
                           <<Key(key_a), IntObj(5)>> >>)

\* C25: flb_output_coro_destroy_id called with an id that no context on the
\* task's list carries returns -1 and leaves task.users, the task's context
\* list, every instance's active list and every context as they were.
C25_UnknownIdIgnored ==
    [][\A id \in DestroyIds, t \in Tasks :
          (DestroyId(id, t) /\ flb_output_coro_get(Heap, id, t) = NoCoro) =>
              /\ destroy_ret' = -1
              /\ users' = users /\ coros' = coros /\ th_queue' = th_queue
              /\ out_coro' = out_coro]_vars

\* the last call returned -1 on a task whose earlier context has been
\* destroyed by id and which still has a context linked
C25_Witness ==
    \E t \in Tasks, c, d \in CoroHandles :
        /\ destroy_ret = -1
        /\ out_coro[c].task = t /\ out_coro[c].pc = "destroyed"
        /\ out_coro[d].task = t /\ coros[t] = <<d>>
        /\ handled[t] >= 1

\* what a call would return on an accessor of the same patterns whose
\* matches table holds no match of an earlier record
FreshRemove(map) ==
    flb_mp_accessor_keys_remove(flb_mp_accessor_create(mpa.ra_list), map, r_out)

\* C26: a call of flb_mp_accessor_keys_remove rewrites the record by the
\* rules that matched it in this call only: it returns what it would return
\* with a matches table that holds nothing of earlier records, whatever
\* records the accessor was run on before.
C26_NoStaleMatches ==
    [][\A i \in 1 .. Len(RecordSamples) :
          KeysRemove(RecordSamples[i]) =>
              /\ r_ret' = FreshRemove(RecordSamples[i]).ret
              /\ r_out' = FreshRemove(RecordSamples[i]).out]_vars

\* a.c and f, first run on {a:{b:1,c:2,d:3},f:4}, then on
\* {a:{b:{c:1,d:2},e:3},f:4} decoded in the same place: a.c does not match
\* the second record, yet e, which lies where c lay, is gone with f
C26_StaleMatchElides ==
    /\ r_calls = 2
    /\ mpa.ra_list = << << key_a, key_c >>, << key_f >> >>
    /\ r_map = RecordSamples[1]
    /\ r_ret = FLB_TRUE
    /\ ParseObj(r_out, 1).obj =
           MapObj(<< <<Key(key_a),
                       MapObj(<< <<Key(key_b), MapObj(<< <<Key(key_c), IntObj(1)>>,
                                                        <<Key(key_d), IntObj(2)>> >>)>> >>)>> >>)

\* a step on cursor i leaves the cursor j and the header at its offset alone
KeepsOther(i, j) ==
    (i # j /\ mh[j].pc # "unused") =>
        /\ mh'[j] = mh[j]
        /\ ReadHeader(sbuf', mh[j].offset) = ReadHeader(sbuf, mh[j].offset)

\* an init, append or end call on cursor i changes that cursor; it leaves
\* every other cursor alone
OthersKept ==
    \A i, j \in Cursors : mh'[i] # mh[i] => KeepsOther(i, j)

HeaderFormKept ==
    LET h == ReadHeader(s_buf, HeaderOff)
    IN  /\ ReadHeader(s_buf', HeaderOff).family = h.family
        /\ ReadHeader(s_buf', HeaderOff).width = h.width
        /\ Len(s_buf') = Len(s_buf)
        /\ \A p \in 1 .. Len(s_buf) :
              (p <= HeaderOff \/ p > HeaderOff + h.width) => s_buf'[p] = s_buf[p]

\* C28: flb_mp_set_map_header_size on a map header of any of the three
\* forms and flb_mp_set_array_header_size on an array header of any of the
\* three forms, with any size of 0..2^32-1, leave the header of its family
\* and of its width, and change no byte outside the header.
C28_SetSizeKeepsForm ==
    [][\A size \in SizeSamples :
          /\ (SetMapHeaderSize(size) /\
              ReadHeader(s_buf, HeaderOff).family = FLB_MP_MAP) => HeaderFormKept
          /\ (SetArrayHeaderSize(size) /\
              ReadHeader(s_buf, HeaderOff).family = FLB_MP_ARRAY) => HeaderFormKept]_vars

\* one call of flb_mp_set_map_header_size on a fixmap header: the byte is now
\* 0x90, the header of an empty array (size 16), or 0xde, the tag of a map 16
\* (size 94)
C28_FixmapBecomesOther ==
    /\ s_calls = 1
    /\ ReadHeader(s_in, HeaderOff) = [family |-> FLB_MP_MAP, width |-> 1, count |-> <<0, 2>>]
    /\ s_buf[HeaderOff + 1] \in {144, 222}
    /\ ReadHeader(s_buf, HeaderOff).family = FLB_MP_ARRAY
           \/ ReadHeader(s_buf, HeaderOff).width = 3

====
